---- MODULE Spec2Model ----
(***************************************************************************)
(* Model of sea-orm-tracing: the SQL classifier (parser.rs), the tracing   *)
(* configuration (config.rs) and the traced connection wrapper             *)
(* (connection.rs).  SQL text is a sequence of one-character strings so    *)
(* that trimming, upper-casing, prefix tests and the table regexes are     *)
(* computed character by character, as the code computes them.            *)
(***************************************************************************)
EXTENDS Integers, Sequences, FiniteSets, TLC

VARIABLES
    stmt,       \* parser harness: the pieces the SQL text under test is built from
    sql,        \* parser harness: the SQL text handed to ParsedSql::parse
    parsed,     \* parser harness: result of ParsedSql::parse, NotParsed before the call
    named,      \* parser harness: result of ParsedSql::span_name, None before the call
    tracingConfig, \* builder harness: the TracingConfig under construction
    written,    \* builder harness: the constructor used and the last value set per field
    futures,    \* per concurrent call: the instrumented future of its wrapped operation
    entered,    \* per executor thread: the stack of entered spans, the last one current
    conn,       \* TracedConnection: [backend, config], fixed after construction
    calls       \* one record per caller: position in the wrapped call, span, result, events

vars == <<stmt, sql, parsed, named, tracingConfig, written, futures, entered, conn, calls>>
parserVars == <<stmt, sql, parsed, named>>
builderVars == <<tracingConfig, written>>
futureVars == <<futures, entered>>
connVars == <<conn, calls>>

(***************************************************************************)
(* Characters and strings                                                  *)
(***************************************************************************)
LowerAlpha ==
    <<"a", "b", "c", "d", "e", "f", "g", "h", "i", "j", "k", "l", "m", "n", "o", "p", "q", "r", "s", "t", "u", "v", "w", "x", "y", "z">>

UpperAlpha ==
    <<"A", "B", "C", "D", "E", "F", "G", "H", "I", "J", "K", "L", "M", "N", "O", "P", "Q", "R", "S", "T", "U", "V", "W", "X", "Y", "Z">>

\* the backtick character, which cannot be written in a string here
Backtick == "<backtick>"

Digits == {"0", "1", "2", "3", "4", "5", "6", "7", "8", "9"}

\* char::is_whitespace, as used by str::trim_start and by the regex class \s
IsSpace(c) == c \in {" ", "\t", "\n", "\r"}

\* the regex class \w
IsWord(c) ==
    \/ \E i \in 1..26 : c = LowerAlpha[i] \/ c = UpperAlpha[i]
    \/ c \in Digits
    \/ c = "_"

\* char::to_uppercase on the modelled alphabet
to_uppercase_char(c) ==
    IF \E i \in 1..26 : c = LowerAlpha[i]
    THEN UpperAlpha[CHOOSE i \in 1..26 : c = LowerAlpha[i]]
    ELSE c

\* char::to_lowercase on the modelled alphabet
to_lowercase_char(c) ==
    IF \E i \in 1..26 : c = UpperAlpha[i]
    THEN LowerAlpha[CHOOSE i \in 1..26 : c = UpperAlpha[i]]
    ELSE c

to_uppercase(s) == [i \in 1..Len(s) |-> to_uppercase_char(s[i])]

to_lowercase(s) == [i \in 1..Len(s) |-> to_lowercase_char(s[i])]

\* str::trim_start: drop the leading whitespace characters
RECURSIVE trim_start(_)
trim_start(s) ==
    IF s # <<>> /\ IsSpace(s[1]) THEN trim_start(Tail(s)) ELSE s

\* chars().take(n)
take(s, n) == SubSeq(s, 1, IF Len(s) < n THEN Len(s) ELSE n)

\* str::starts_with
starts_with(s, p) == Len(s) >= Len(p) /\ SubSeq(s, 1, Len(p)) = p

\* the text of a character sequence, for span attributes
RECURSIVE Text(_)
Text(s) == IF s = <<>> THEN "" ELSE s[1] \o Text(Tail(s))

(***************************************************************************)
(* parser.rs: SqlOperation and parse_operation                             *)
(***************************************************************************)
SqlOperation ==
    {"Select", "Insert", "Update", "Delete", "Create", "Drop", "Alter",
     "Truncate", "Begin", "Commit", "Rollback", "Set", "Other"}

as_str(op) ==
    CASE op = "Select" -> "SELECT"
      [] op = "Insert" -> "INSERT"
      [] op = "Update" -> "UPDATE"
      [] op = "Delete" -> "DELETE"
      [] op = "Create" -> "CREATE"
      [] op = "Drop" -> "DROP"
      [] op = "Alter" -> "ALTER"
      [] op = "Truncate" -> "TRUNCATE"
      [] op = "Begin" -> "BEGIN"
      [] op = "Commit" -> "COMMIT"
      [] op = "Rollback" -> "ROLLBACK"
      [] op = "Set" -> "SET"
      [] OTHER -> "QUERY"

KwSelect == <<"S", "E", "L", "E", "C", "T">>
KwWith == <<"W", "I", "T", "H">>
KwInsert == <<"I", "N", "S", "E", "R", "T">>
KwUpdate == <<"U", "P", "D", "A", "T", "E">>
KwDelete == <<"D", "E", "L", "E", "T", "E">>
KwCreate == <<"C", "R", "E", "A", "T", "E">>
KwDrop == <<"D", "R", "O", "P">>
KwAlter == <<"A", "L", "T", "E", "R">>
KwTruncate == <<"T", "R", "U", "N", "C", "A", "T", "E">>
KwBegin == <<"B", "E", "G", "I", "N">>
KwStart == <<"S", "T", "A", "R", "T">>
KwCommit == <<"C", "O", "M", "M", "I", "T">>
KwRollback == <<"R", "O", "L", "L", "B", "A", "C", "K">>
KwSet == <<"S", "E", "T">>
KwFrom == <<"F", "R", "O", "M">>
KwInto == <<"I", "N", "T", "O">>
KwTable == <<"T", "A", "B", "L", "E">>
KwTemp == <<"T", "E", "M", "P">>
KwOrary == <<"O", "R", "A", "R", "Y">>
KwIf == <<"I", "F">>
KwNot == <<"N", "O", "T">>
KwExists == <<"E", "X", "I", "S", "T", "S">>

\* number of leading characters parse_operation looks at
PrefixWindow == 15

\* the chain of starts_with tests on the upper-cased start of the statement
classify(upper_start) ==
    IF starts_with(upper_start, KwSelect) \/ starts_with(upper_start, KwWith)
    THEN "Select"
    ELSE IF starts_with(upper_start, KwInsert) THEN "Insert"
    ELSE IF starts_with(upper_start, KwUpdate) THEN "Update"
    ELSE IF starts_with(upper_start, KwDelete) THEN "Delete"
    ELSE IF starts_with(upper_start, KwCreate) THEN "Create"
    ELSE IF starts_with(upper_start, KwDrop) THEN "Drop"
    ELSE IF starts_with(upper_start, KwAlter) THEN "Alter"
    ELSE IF starts_with(upper_start, KwTruncate) THEN "Truncate"
    ELSE IF starts_with(upper_start, KwBegin) \/ starts_with(upper_start, KwStart)
    THEN "Begin"
    ELSE IF starts_with(upper_start, KwCommit) THEN "Commit"
    ELSE IF starts_with(upper_start, KwRollback) THEN "Rollback"
    ELSE IF starts_with(upper_start, KwSet) THEN "Set"
    ELSE "Other"

\* parse_operation without the trim_start
parse_operation_untrimmed(s) == classify(to_uppercase(take(s, PrefixWindow)))

parse_operation(s) == classify(to_uppercase(take(trim_start(s), PrefixWindow)))

(***************************************************************************)
(* parser.rs: the table regexes.  A matcher takes the text and a position  *)
(* and returns the position after what it matched, or 0 when it fails.     *)
(***************************************************************************)
NoMatch == 0

\* a literal under (?i): each character matches in either case
Lit(s, i, lit) ==
    IF /\ i # NoMatch
       /\ i + Len(lit) - 1 <= Len(s)
       /\ \A k \in 1..Len(lit) : to_uppercase_char(s[i + k - 1]) = lit[k]
    THEN i + Len(lit)
    ELSE NoMatch

\* end of the maximal run of characters satisfying the class, starting at i
RECURSIVE RunEnd(_, _, _)
RunEnd(s, i, isWord) ==
    IF i <= Len(s) /\ (IF isWord THEN IsWord(s[i]) ELSE IsSpace(s[i]))
    THEN RunEnd(s, i + 1, isWord)
    ELSE i

\* the position e when it lies after i, else no match
After(i, e) == IF i # NoMatch /\ e > i THEN e ELSE NoMatch

\* \s+
Spaces(s, i) == After(i, RunEnd(s, i, FALSE))

\* \b before a keyword: the previous character, if any, is not a word character
WordBoundary(s, i) == i = 1 \/ ~IsWord(s[i - 1])

\* [`"\[]?(\w+)[`"\]]? : the capture group as [from, to], or NoCapture
NoCapture == [from |-> 0, to |-> 0]

\* the capture from..(e - 1), when it is not empty
Capture(from, j, e) == IF e > j THEN [from |-> from, to |-> e - 1] ELSE NoCapture

\* the position after an optional opening quote at i
SkipQuote(s, i) == IF i <= Len(s) /\ s[i] \in {Backtick, "\"", "["} THEN i + 1 ELSE i

\* the word characters from j on, captured
Word(s, j) == Capture(j, j, RunEnd(s, j, TRUE))

\* the identifier pattern with the opening quote inside the capture group
QuotedIdent_capturing_quote(s, i) ==
    IF i = NoMatch THEN NoCapture
    ELSE Capture(i, SkipQuote(s, i), RunEnd(s, SkipQuote(s, i), TRUE))

\* [`"\[]?(\w+)[`"\]]? : the capture group as [from, to], or NoCapture
QuotedIdent(s, i) == IF i = NoMatch THEN NoCapture ELSE Word(s, SkipQuote(s, i))

FirstCapture(x, y) == IF x # NoCapture THEN x ELSE y

\* (?: X )? Y where Y is the identifier: the group is tried first, and given
\* up (backtracking) when the identifier does not match after it
OptThenIdent(s, i, afterGroup) ==
    FirstCapture(QuotedIdent(s, afterGroup), QuotedIdent(s, i))

\* (?i)\bFROM\s+[`"\[]?(\w+)[`"\]]?
SELECT_TABLE_REGEX(s, i) ==
    IF WordBoundary(s, i) THEN QuotedIdent(s, Spaces(s, Lit(s, i, KwFrom)))
    ELSE NoCapture

\* (?i)\bINSERT\s+INTO\s+[`"\[]?(\w+)[`"\]]?
INSERT_TABLE_REGEX(s, i) ==
    IF WordBoundary(s, i)
    THEN QuotedIdent(s, Spaces(s, Lit(s, Spaces(s, Lit(s, i, KwInsert)), KwInto)))
    ELSE NoCapture

\* (?i)\bUPDATE\s+[`"\[]?(\w+)[`"\]]?
UPDATE_TABLE_REGEX(s, i) ==
    IF WordBoundary(s, i) THEN QuotedIdent(s, Spaces(s, Lit(s, i, KwUpdate)))
    ELSE NoCapture

\* (?i)\bDELETE\s+FROM\s+[`"\[]?(\w+)[`"\]]?
DELETE_TABLE_REGEX(s, i) ==
    IF WordBoundary(s, i)
    THEN QuotedIdent(s, Spaces(s, Lit(s, Spaces(s, Lit(s, i, KwDelete)), KwFrom)))
    ELSE NoCapture

\* the first of the positions x, y, z at which the literal matches (z when
\* it matches at none): the choice between the alternatives of a group
FirstThatContinues(s, x, y, z, lit) ==
    IF Lit(s, x, lit) # NoMatch THEN x
    ELSE IF Lit(s, y, lit) # NoMatch THEN y
    ELSE z

\* (?:IF\s+NOT\s+EXISTS\s+)?[`"\[]?(\w+)[`"\]]? at position c
IfNotExistsIdent(s, c) ==
    OptThenIdent(s, c,
        Spaces(s, Lit(s, Spaces(s, Lit(s, Spaces(s, Lit(s, c, KwIf)), KwNot)), KwExists)))

\* (?:TEMP(?:ORARY)?\s+)?TABLE\s+ at position a, then the rest
TempTable(s, a) ==
    Spaces(s, Lit(s,
        FirstThatContinues(s, Spaces(s, Lit(s, Lit(s, a, KwTemp), KwOrary)),
                           Spaces(s, Lit(s, a, KwTemp)), a, KwTable),
        KwTable))

\* (?i)\bCREATE\s+(?:TEMP(?:ORARY)?\s+)?TABLE\s+(?:IF\s+NOT\s+EXISTS\s+)?[`"\[]?(\w+)[`"\]]?
CREATE_TABLE_REGEX(s, i) ==
    IF WordBoundary(s, i)
    THEN IfNotExistsIdent(s, TempTable(s, Spaces(s, Lit(s, i, KwCreate))))
    ELSE NoCapture

\* (?:IF\s+EXISTS\s+)?[`"\[]?(\w+)[`"\]]? at position c
IfExistsIdent(s, c) ==
    OptThenIdent(s, c, Spaces(s, Lit(s, Spaces(s, Lit(s, c, KwIf)), KwExists)))

\* (?i)\bDROP\s+TABLE\s+(?:IF\s+EXISTS\s+)?[`"\[]?(\w+)[`"\]]?
DROP_TABLE_REGEX(s, i) ==
    IF WordBoundary(s, i)
    THEN IfExistsIdent(s, Spaces(s, Lit(s, Spaces(s, Lit(s, i, KwDrop)), KwTable)))
    ELSE NoCapture

\* (?i)\bALTER\s+TABLE\s+[`"\[]?(\w+)[`"\]]?
ALTER_TABLE_REGEX(s, i) ==
    IF WordBoundary(s, i)
    THEN QuotedIdent(s, Spaces(s, Lit(s, Spaces(s, Lit(s, i, KwAlter)), KwTable)))
    ELSE NoCapture

\* (?:TABLE\s+)?[`"\[]?(\w+)[`"\]]? at position c
TableIdent(s, c) == OptThenIdent(s, c, Spaces(s, Lit(s, c, KwTable)))

\* (?i)\bTRUNCATE\s+(?:TABLE\s+)?[`"\[]?(\w+)[`"\]]?
TRUNCATE_TABLE_REGEX(s, i) ==
    IF WordBoundary(s, i)
    THEN TableIdent(s, Spaces(s, Lit(s, i, KwTruncate)))
    ELSE NoCapture

\* the regex extract_table selects for an operation, applied at position i
TableRegex(op, s, i) ==
    CASE op = "Select" -> SELECT_TABLE_REGEX(s, i)
      [] op = "Insert" -> INSERT_TABLE_REGEX(s, i)
      [] op = "Update" -> UPDATE_TABLE_REGEX(s, i)
      [] op = "Delete" -> DELETE_TABLE_REGEX(s, i)
      [] op = "Create" -> CREATE_TABLE_REGEX(s, i)
      [] op = "Drop" -> DROP_TABLE_REGEX(s, i)
      [] op = "Alter" -> ALTER_TABLE_REGEX(s, i)
      [] op = "Truncate" -> TRUNCATE_TABLE_REGEX(s, i)
      [] OTHER -> NoCapture

\* the least position in a non-empty set
Leftmost(hits) == CHOOSE i \in hits : \A k \in hits : i <= k

\* Regex::captures: the match at the leftmost position at which the regex
\* matches
captures(op, s) ==
    IF \E i \in 1..Len(s) : TableRegex(op, s, i) # NoCapture
    THEN TableRegex(op, s, Leftmost({i \in 1..Len(s) : TableRegex(op, s, i) # NoCapture}))
    ELSE NoCapture

(***************************************************************************)
(* parser.rs: extract_table and ParsedSql.  Option<String> is the empty    *)
(* set (None) or a singleton (Some).                                       *)
(***************************************************************************)
None == {}

Some(v) == {v}

HasTableRule(op) ==
    op \in {"Select", "Insert", "Update", "Delete", "Create", "Drop", "Alter", "Truncate"}

\* caps.get(1).map(|m| m.as_str().to_lowercase())
capture_text(s, caps) ==
    IF caps = NoCapture THEN None ELSE Some(to_lowercase(SubSeq(s, caps.from, caps.to)))

\* the match on the operation: a regex, or return None
extract_for(operation, s) ==
    IF HasTableRule(operation) THEN capture_text(s, captures(operation, s)) ELSE None

\* the match on the operation falling back to the FROM pattern
extract_for_with_fallback(operation, s) ==
    capture_text(s, captures(IF HasTableRule(operation) THEN operation ELSE "Select", s))

\* extract_table falling back to the FROM pattern for the other operations
extract_table_with_fallback(s) == extract_for_with_fallback(parse_operation(s), s)

extract_table(s) == extract_for(parse_operation(s), s)

ParsedSql_parse(s) ==
    [operation |-> parse_operation(s), table |-> extract_table(s)]

\* Option<String> as text
TextOf(opt) == {Text(t) : t \in opt}

\* format!("{} {}", operation, table)
spaced(op, texts) == IF texts # None THEN op \o " " \o (CHOOSE t \in texts : TRUE) ELSE op

\* span_name joining operation and table without the space
span_name_unspaced(p) ==
    IF p.table # None THEN as_str(p.operation) \o (CHOOSE t \in TextOf(p.table) : TRUE)
    ELSE as_str(p.operation)

span_name(p) == spaced(as_str(p.operation), TextOf(p.table))

(***************************************************************************)
(* Statements under test.  A statement is assembled from pieces so that    *)
(* the table it names is known independently of the regexes:               *)
(*   lead verb mid ref <quote>ident<quote> tail                            *)
(***************************************************************************)
MaxLead == 2

\* n leading whitespace characters, alternating blank and newline
Lead(n) == [i \in 1..n |-> IF i % 2 = 1 THEN " " ELSE "\n"]

Keywords ==
    {KwSelect, KwWith, KwInsert, KwUpdate, KwDelete, KwCreate, KwDrop, KwAlter,
     KwTruncate, KwBegin, KwStart, KwCommit, KwRollback, KwSet}

\* a keyword written in lower case from position n on (n = 1: all lower case)
LowerFrom(kw, n) == [i \in 1..Len(kw) |-> IF i >= n THEN to_lowercase_char(kw[i]) ELSE kw[i]]

\* a keyword without its last character: no longer a keyword
Chopped(kw) == SubSeq(kw, 1, Len(kw) - 1)

Verbs ==
    Keywords
    \cup {LowerFrom(kw, 1) : kw \in Keywords}
    \cup {LowerFrom(kw, 2) : kw \in Keywords}
    \cup {Chopped(kw) : kw \in Keywords}
    \cup {<<>>, <<"E", "X", "P", "L", "A", "I", "N">>, <<"(">>}

Mids == {<<>>, <<" ">>, <<" ", "*", " ">>}

Refs == {<<>>, <<"F", "R", "O", "M", " ">>, <<"f", "r", "o", "m", "\n">>, <<"I", "N", "T", "O", " ">>}

Quotes == {"none", "backtick", "double", "bracket"}

OpenQuote(q) ==
    CASE q = "backtick" -> <<Backtick>>
      [] q = "double" -> <<"\"">>
      [] q = "bracket" -> <<"[">>
      [] OTHER -> <<>>

CloseQuote(q) ==
    CASE q = "backtick" -> <<Backtick>>
      [] q = "double" -> <<"\"">>
      [] q = "bracket" -> <<"]">>
      [] OTHER -> <<>>

\* identifiers, each with its lower-cased spelling written out
Idents ==
    {[text |-> <<"u", "s", "e", "r", "s">>, lower |-> <<"u", "s", "e", "r", "s">>],
     [text |-> <<"O", "r", "d", "e", "r", "_", "2">>, lower |-> <<"o", "r", "d", "e", "r", "_", "2">>]}

Tails == {<<>>, <<" ", "W", "H", "E", "R", "E", " ", "i", "d", " ", "=", " ", "1", ";", " ", "U", "P", "D", "A", "T", "E", " ", "t", " ", "S", "E", "T", " ", "x", " ", "=", " ", "1">>, <<" ", "u", " ", "J", "O", "I", "N", " ", "o", "r", "d", "e", "r", "s", " ", "o", " ", "S", "E", "T", " ", "x", " ", "F", "R", "O", "M", " ", "y">>}

Statements ==
    [lead : {Lead(n) : n \in 0..MaxLead}, verb : Verbs, mid : Mids, ref : Refs,
     quote : Quotes, ident : Idents, tail : Tails]

Render(st) ==
    st.lead \o st.verb \o st.mid \o st.ref
        \o OpenQuote(st.quote) \o st.ident.text \o CloseQuote(st.quote) \o st.tail

NotParsed == [operation |-> "NotParsed", table |-> None]

\* the harness calls ParsedSql::parse on the statement
Parse ==
    /\ parsed = NotParsed
    /\ parsed' = ParsedSql_parse(sql)
    /\ UNCHANGED <<stmt, sql, named, conn, calls, builderVars, futureVars>>

\* the harness asks the parsed statement for its span name
SpanName ==
    /\ parsed # NotParsed
    /\ named = None
    /\ named' = Some(span_name(parsed))
    /\ UNCHANGED <<stmt, sql, parsed, conn, calls, builderVars, futureVars>>

(***************************************************************************)
(* config.rs: TracingConfig.  Durations are counted in ticks, a fraction   *)
(* of a millisecond, so that as_millis() truncates.                        *)
(***************************************************************************)
TicksPerMs == 2

from_millis(ms) == ms * TicksPerMs

from_secs(s) == s * 1000 * TicksPerMs

\* Duration::as_millis: whole milliseconds, truncated
as_millis(d) == d \div TicksPerMs

\* the optional service-map settings create_span reads from the config
ServiceMapConfig ==
    [server_address |-> None, server_port |-> None, peer_service |-> None]

TracingConfig_default ==
    [log_statements |-> FALSE,
     log_parameters |-> FALSE,
     slow_query_threshold |-> from_millis(500),
     record_row_counts |-> TRUE,
     target |-> "sea_orm_tracing",
     database_name |-> None] @@ ServiceMapConfig

with_statement_logging(cfg, enabled) == [cfg EXCEPT !.log_statements = enabled]

with_parameter_logging(cfg, enabled) == [cfg EXCEPT !.log_parameters = enabled]

with_slow_query_threshold(cfg, threshold) == [cfg EXCEPT !.slow_query_threshold = threshold]

\* the row-count setter writing the flag of the setter above it
with_row_count_recording_on_parameters(cfg, enabled) == [cfg EXCEPT !.log_parameters = enabled]

with_row_count_recording(cfg, enabled) == [cfg EXCEPT !.record_row_counts = enabled]

with_target(cfg, target) == [cfg EXCEPT !.target = target]

with_database_name(cfg, name) == [cfg EXCEPT !.database_name = Some(name)]

development ==
    [log_statements |-> TRUE,
     log_parameters |-> TRUE,
     slow_query_threshold |-> from_millis(100),
     record_row_counts |-> TRUE,
     target |-> "sea_orm_tracing",
     database_name |-> None] @@ ServiceMapConfig

\* the production preset with its threshold given in milliseconds
production_with_millis ==
    [log_statements |-> FALSE,
     log_parameters |-> FALSE,
     slow_query_threshold |-> from_millis(1),
     record_row_counts |-> TRUE,
     target |-> "sea_orm_tracing",
     database_name |-> None] @@ ServiceMapConfig

production ==
    [log_statements |-> FALSE,
     log_parameters |-> FALSE,
     slow_query_threshold |-> from_secs(1),
     record_row_counts |-> TRUE,
     target |-> "sea_orm_tracing",
     database_name |-> None] @@ ServiceMapConfig

(***************************************************************************)
(* Builder harness: a configuration is made by a constructor and any       *)
(* number of setter calls; `written` remembers the constructor and, per    *)
(* field, the last value a setter was given (None: never set).             *)
(***************************************************************************)
SettableFields ==
    {"log_statements", "log_parameters", "slow_query_threshold",
     "record_row_counts", "target", "database_name"}

NothingWritten(constructor) ==
    [constructor |-> constructor, last |-> [f \in SettableFields |-> None]]

\* TracingConfig::new() / default(), development(), production()
Construct ==
    /\ \E c \in {"default", "development", "production"} :
          /\ tracingConfig' = CASE c = "default" -> TracingConfig_default
                                [] c = "development" -> development
                                [] OTHER -> production
          /\ written' = NothingWritten(c)
    /\ UNCHANGED <<parserVars, conn, calls, futureVars>>

\* one setter call: the field it is documented to set and the value given
Setter(f, v, result) ==
    /\ tracingConfig' = result
    /\ written' = [written EXCEPT !.last[f] = Some(v)]
    /\ UNCHANGED <<parserVars, conn, calls, futureVars>>

WithStatementLogging ==
    \E enabled \in BOOLEAN :
        Setter("log_statements", enabled, with_statement_logging(tracingConfig, enabled))

WithParameterLogging ==
    \E enabled \in BOOLEAN :
        Setter("log_parameters", enabled, with_parameter_logging(tracingConfig, enabled))

WithSlowQueryThreshold ==
    \E threshold \in {from_millis(100), from_millis(500), from_secs(1)} :
        Setter("slow_query_threshold", threshold,
               with_slow_query_threshold(tracingConfig, threshold))

WithRowCountRecording ==
    \E enabled \in BOOLEAN :
        Setter("record_row_counts", enabled, with_row_count_recording(tracingConfig, enabled))

WithTarget ==
    \E target \in {"sea_orm_tracing", "db"} : Setter("target", target, with_target(tracingConfig, target))

WithDatabaseName ==
    \E n \in {"test_db", "main"} :
        Setter("database_name", Some(n), with_database_name(tracingConfig, n))

(***************************************************************************)
(* connection.rs: spans.  A span has a name, the set of fields declared    *)
(* when it was created, and a value (None = field::Empty) per field.       *)
(* Recording a field the span did not declare does nothing.                *)
(***************************************************************************)
QueryFields ==
    {"otel.name", "db.system", "db.operation", "db.sql.table", "db.statement",
     "db.rows_affected", "db.duration_ms", "db.name", "server.address",
     "server.port", "peer.service", "otel.status_code", "error.message",
     "slow_query"}

TransactionFields ==
    {"otel.name", "db.system", "db.operation", "otel.status_code", "error.message"}

ConfigFields == {"db.transaction.isolation_level", "db.transaction.access_mode"}

FieldNames == QueryFields \cup TransactionFields \cup ConfigFields

NoSpan == [name |-> "", declared |-> {}, fields |-> [f \in FieldNames |-> None]]

\* Span::record
record(span, f, v) ==
    IF f \in span.declared THEN [span EXCEPT !.fields[f] = Some(v)] ELSE span

\* recording an Option: nothing is written for None
record_opt(span, f, opt) ==
    IF opt = None THEN span ELSE record(span, f, CHOOSE v \in opt : TRUE)

\* recording under a condition
record_if(cond, span, f, v) == IF cond THEN record(span, f, v) ELSE span

\* a span with the given fields declared and the initial values of `init` set
new_span(name, declared, init) ==
    [name |-> name, declared |-> declared,
     fields |-> [f \in FieldNames |-> IF f \in DOMAIN init THEN Some(init[f]) ELSE None]]

Backends == {"Postgres", "MySql", "Sqlite"}

db_system(backend) ==
    CASE backend = "Postgres" -> "postgresql"
      [] backend = "MySql" -> "mysql"
      [] OTHER -> "sqlite"

\* the info_span! of create_span: name, system and operation are set, the
\* other fields declared empty
query_span(cn, p) ==
    new_span("db.query", QueryFields,
             [x \in {"otel.name", "db.system", "db.operation"} |->
                 CASE x = "otel.name" -> span_name(p)
                   [] x = "db.system" -> db_system(cn.backend)
                   [] OTHER -> as_str(p.operation)])

\* the fields create_span records from the parsed statement and the config
span_for(cn, s, p) ==
    record_if(cn.config.log_statements,
        record_opt(
            record_opt(
                record_opt(
                    record_opt(
                        record_opt(query_span(cn, p), "db.sql.table", TextOf(p.table)),
                        "db.name", cn.config.database_name),
                    "server.address", cn.config.server_address),
                "server.port", cn.config.server_port),
            "peer.service", cn.config.peer_service),
        "db.statement", Text(s))

\* the same with the statement recorded whatever the configuration says
span_for_always_logging(cn, s, p) ==
    record(record_opt(record_opt(query_span(cn, p), "db.sql.table", TextOf(p.table)),
                      "db.name", cn.config.database_name),
           "db.statement", Text(s))

create_span_always_logging(cn, s) == span_for_always_logging(cn, s, ParsedSql_parse(s))

create_span(cn, s) == span_for(cn, s, ParsedSql_parse(s))

\* Debug of an Option, as written by the `?` field sigil
DebugOption(opt) ==
    IF opt = None THEN "None" ELSE "Some(" \o (CHOOSE v \in opt : TRUE) \o ")"

\* the span of begin / begin_with_config / transaction / transaction_with_config
transaction_span(cn, label, withConfig, isolation_level, access_mode) ==
    new_span("db.transaction",
             IF withConfig THEN TransactionFields \cup ConfigFields ELSE TransactionFields,
             [x \in {"otel.name", "db.system", "db.operation"}
                    \cup (IF withConfig THEN ConfigFields ELSE {}) |->
                 CASE x = "otel.name" -> label
                   [] x = "db.system" -> db_system(cn.backend)
                   [] x = "db.operation" -> label
                   [] x = "db.transaction.isolation_level" -> DebugOption(isolation_level)
                   [] OTHER -> DebugOption(access_mode)])

(***************************************************************************)
(* Results of the wrapped connection.  A result is Ok(payload) or          *)
(* Err(error); the text of an error is what Display / Debug print.         *)
(***************************************************************************)
MaxRows == 1

DbErrs ==
    {[type |-> "DbErr", variant |-> "Conn", detail |-> "refused"],
     [type |-> "DbErr", variant |-> "Custom", detail |-> ""]}

\* the error a transaction callback returns (the caller's own type E)
CallbackErrs == {[type |-> "E", variant |-> "Rejected", detail |-> ""]}

\* Display of DbErr
to_string(e) ==
    CASE e.variant = "Conn" -> "Connection Error: " \o e.detail
      [] e.variant = "Exec" -> "Execution Error: " \o e.detail
      [] e.variant = "Query" -> "Query Error: " \o e.detail
      [] OTHER -> "Custom Error: " \o e.detail

\* Debug of TransactionError<E>
debug_string(e) ==
    IF e.type = "DbErr"
    THEN "Connection(" \o e.variant \o "(\"" \o e.detail \o "\"))"
    ELSE "Transaction(" \o e.variant \o ")"

Ok(v) == [ok |-> TRUE, value |-> Some(v), err |-> None]

Err(e) == [ok |-> FALSE, value |-> None, err |-> Some(e)]

StatementOps == {"execute", "execute_unprepared", "query_one", "query_all", "stream"}

BeginOps == {"begin", "begin_with_config"}

CallbackOps == {"transaction", "transaction_with_config"}

Ops == StatementOps \cup BeginOps \cup CallbackOps

\* what the wrapped connection can answer to an operation: an ExecResult
\* with its rows_affected, an optional row, a vector of rows, a stream, an
\* opened transaction or the value of the callback; or an error
InnerResults(op) ==
    CASE op \in {"execute", "execute_unprepared"} ->
             {Ok([rows_affected |-> n]) : n \in 0..MaxRows} \cup {Err(e) : e \in DbErrs}
      [] op = "query_one" ->
             {Ok(None), Ok(Some("row"))} \cup {Err(e) : e \in DbErrs}
      [] op = "query_all" ->
             {Ok([i \in 1..n |-> "row"]) : n \in 0..MaxRows} \cup {Err(e) : e \in DbErrs}
      [] op = "stream" ->
             {Ok("stream")} \cup {Err(e) : e \in DbErrs}
      [] op \in BeginOps ->
             {Ok("transaction")} \cup {Err(e) : e \in DbErrs}
      [] OTHER ->
             {Ok("done")} \cup {Err(e) : e \in DbErrs \cup CallbackErrs}

\* the value of an Ok result / the error of an Err result
unwrap(r) == CHOOSE v \in r.value : TRUE

unwrap_err(r) == CHOOSE e \in r.err : TRUE

(***************************************************************************)
(* connection.rs: recording the outcome                                    *)
(***************************************************************************)
WarnEvent(duration_ms, threshold_ms) ==
    [level |-> "WARN", message |-> "Slow query detected",
     duration_ms |-> Some(duration_ms), threshold_ms |-> Some(threshold_ms), error |-> None]

ErrorEvent(text) ==
    [level |-> "ERROR", message |-> "Database query failed",
     duration_ms |-> None, threshold_ms |-> None, error |-> Some(text)]

\* the text recorded for an Err whose error prints as `text`
error_text(result) == IF result.ok THEN "" ELSE to_string(unwrap_err(result))

\* the status match with the error arm recording only the status
record_status_without_message(span, result, text) ==
    IF result.ok
    THEN record(span, "otel.status_code", "OK")
    ELSE record(span, "otel.status_code", "ERROR")

\* the match on the result that ends every wrapped operation: status and
\* error message; `text` is the error's Display or Debug text
record_status(span, result, text) ==
    IF result.ok
    THEN record(span, "otel.status_code", "OK")
    ELSE record(record(span, "otel.status_code", "ERROR"), "error.message", text)

\* appending under a condition
append_if(cond, events, e) == IF cond THEN Append(events, e) ELSE events

\* record_result recording the row count whatever the configuration says
record_result_ignoring_config(cfg, span, events, result, elapsed1, elapsed2, row_count) ==
    [span |->
        record_status(
            record_if(elapsed2 > cfg.slow_query_threshold,
                record_opt(record(span, "db.duration_ms", as_millis(elapsed1)),
                           "db.rows_affected", row_count),
                "slow_query", TRUE),
            result, error_text(result)),
     events |->
        append_if(~result.ok,
            append_if(elapsed2 > cfg.slow_query_threshold, events,
                      WarnEvent(as_millis(elapsed1), as_millis(cfg.slow_query_threshold))),
            ErrorEvent(error_text(result)))]

\* record_result taking the duration from the later reading of the clock
\* and comparing the earlier one with the threshold
record_result_readings_swapped(cfg, span, events, result, elapsed1, elapsed2, row_count) ==
    [span |->
        record_status(
            record_if(elapsed1 > cfg.slow_query_threshold,
                record_opt(record(span, "db.duration_ms", as_millis(elapsed2)),
                           "db.rows_affected",
                           IF cfg.record_row_counts THEN row_count ELSE None),
                "slow_query", TRUE),
            result, error_text(result)),
     events |->
        append_if(~result.ok,
            append_if(elapsed1 > cfg.slow_query_threshold, events,
                      WarnEvent(as_millis(elapsed2), as_millis(cfg.slow_query_threshold))),
            ErrorEvent(error_text(result)))]

\* record_result(span, result, start, row_count); elapsed1 and elapsed2 are
\* the two readings of start.elapsed().  Gives the span and the events:
\* duration, row count if configured and available, slow flag and warning
\* if the second reading exceeds the threshold, then status, error message
\* and error event.
record_result(cfg, span, events, result, elapsed1, elapsed2, row_count) ==
    [span |->
        record_status(
            record_if(elapsed2 > cfg.slow_query_threshold,
                record_opt(record(span, "db.duration_ms", as_millis(elapsed1)),
                           "db.rows_affected",
                           IF cfg.record_row_counts THEN row_count ELSE None),
                "slow_query", TRUE),
            result, error_text(result)),
     events |->
        append_if(~result.ok,
            append_if(elapsed2 > cfg.slow_query_threshold, events,
                      WarnEvent(as_millis(elapsed1), as_millis(cfg.slow_query_threshold))),
            ErrorEvent(error_text(result)))]

\* the recording of stream() without the duration
stream_record_without_duration(cfg, span, events, result, elapsed1, elapsed2) ==
    [span |-> record_status(
                  record_if(elapsed2 > cfg.slow_query_threshold, span, "slow_query", TRUE),
                  result, error_text(result)),
     events |-> events]

\* the recording written out in stream(): duration, slow flag and status
stream_record(cfg, span, events, result, elapsed1, elapsed2) ==
    [span |-> record_status(
                  record_if(elapsed2 > cfg.slow_query_threshold,
                            record(span, "db.duration_ms", as_millis(elapsed1)),
                            "slow_query", TRUE),
                  result, error_text(result)),
     events |-> events]

\* the recording of begin / begin_with_config (Display of the DbErr) and of
\* transaction / transaction_with_config (Debug of the TransactionError)
transaction_record(op, span, events, result) ==
    [span |-> record_status(span, result,
                            IF result.ok THEN ""
                            ELSE IF op \in BeginOps THEN to_string(unwrap_err(result))
                            ELSE debug_string(unwrap_err(result))),
     events |-> events]

\* the row count each operation hands to record_result
row_count(op, result) ==
    IF ~result.ok THEN None
    ELSE CASE op \in {"execute", "execute_unprepared"} -> Some(unwrap(result).rows_affected)
           [] op = "query_one" -> Some(IF unwrap(result) # None THEN 1 ELSE 0)
           [] op = "query_all" -> Some(Len(unwrap(result)))
           [] OTHER -> None

(***************************************************************************)
(* The wrapped calls.  A caller makes one call at a time through the       *)
(* connection; a call is a future that the caller polls or drops.  Calls   *)
(* share nothing but the immutable connection.                             *)
(***************************************************************************)
Callers == {"a"}

MaxElapsed == 4

MaxDrift == 1

SqlSamples ==
    {<<"S", "E", "L", "E", "C", "T", " ", "*", " ", "F", "R", "O", "M", " ", "u", "s", "e", "r", "s", " ", "W", "H", "E", "R", "E", " ", "i", "d", " ", "=", " ", "1">>, <<"C", "O", "M", "M", "I", "T">>}

IsolationLevels == {None, Some("Serializable")}

AccessModes == {None, Some("ReadOnly")}

IdleCall ==
    [pc |-> "idle", op |-> "", sql |-> <<>>,
     isolation_level |-> None, access_mode |-> None,
     span |-> NoSpan, handles |-> 0, closed |-> 0, started |-> 0,
     inner |-> None, returned |-> None, readings |-> <<>>, events |-> <<>>]

\* the span an operation opens
open_span(cn, op, s, iso, acc) ==
    IF op \in StatementOps THEN create_span(cn, s)
    ELSE transaction_span(cn, IF op \in BeginOps THEN "BEGIN" ELSE "TRANSACTION",
                          op \in {"begin_with_config", "transaction_with_config"}, iso, acc)

\* first lines of every operation: the span is created (and, for statement
\* operations, the start instant taken)
Open(c) ==
    /\ calls[c].pc = "idle"
    /\ \E op \in Ops :
       \E s \in (IF op \in StatementOps THEN SqlSamples ELSE {<<>>}) :
       \E iso \in (IF op \in {"begin_with_config", "transaction_with_config"}
                   THEN IsolationLevels ELSE {None}) :
       \E acc \in (IF op \in {"begin_with_config", "transaction_with_config"}
                   THEN AccessModes ELSE {None}) :
          calls' = [calls EXCEPT ![c] =
                       [IdleCall EXCEPT !.pc = "opened", !.op = op, !.sql = s,
                                        !.isolation_level = iso, !.access_mode = acc,
                                        !.span = open_span(conn, op, s, iso, acc),
                                        !.handles = 1]]
    /\ UNCHANGED <<conn, parserVars, builderVars, futureVars>>

\* self.inner.<op>(..).instrument(span.clone()): the wrapped operation is
\* started inside a clone of the span
Start(c) ==
    /\ calls[c].pc = "opened"
    /\ calls' = [calls EXCEPT ![c].pc = "running",
                              ![c].handles = @ + 1,
                              ![c].started = @ + 1]
    /\ UNCHANGED <<conn, parserVars, builderVars, futureVars>>

\* an await that starts the wrapped operation again when it failed
Complete_retrying_on_error(c) ==
    /\ calls[c].pc = "running"
    /\ \E r \in InnerResults(calls[c].op) :
          calls' = IF r.ok
                   THEN [calls EXCEPT ![c].pc = "completed",
                                      ![c].inner = Some(r),
                                      ![c].handles = @ - 1]
                   ELSE [calls EXCEPT ![c].started = @ + 1]
    /\ UNCHANGED <<conn, parserVars, builderVars, futureVars>>

\* .await returns: the wrapped connection produced its result and the
\* instrumented future, with its clone of the span, is dropped
Complete(c) ==
    /\ calls[c].pc = "running"
    /\ \E r \in InnerResults(calls[c].op) :
          calls' = [calls EXCEPT ![c].pc = "completed",
                                 ![c].inner = Some(r),
                                 ![c].handles = @ - 1]
    /\ UNCHANGED <<conn, parserVars, builderVars, futureVars>>

\* what an operation records once the wrapped call has completed
recorded(cn, call, elapsed1, elapsed2) ==
    LET result == CHOOSE r \in call.inner : TRUE
    IN  IF call.op = "stream"
        THEN stream_record(cn.config, call.span, call.events, result, elapsed1, elapsed2)
        ELSE IF call.op \in StatementOps
        THEN record_result(cn.config, call.span, call.events, result, elapsed1, elapsed2,
                           row_count(call.op, result))
        ELSE transaction_record(call.op, call.span, call.events, result)

\* the code after the await: the outcome is written to the span.  elapsed1
\* and elapsed2 are the time since the call began at the two places where
\* record_result (and stream) read the clock
Record(c) ==
    /\ calls[c].pc = "completed"
    /\ \E elapsed1 \in 0..MaxElapsed : \E drift \in 0..MaxDrift :
          LET rec == recorded(conn, calls[c], elapsed1, elapsed1 + drift)
          IN  calls' = [calls EXCEPT ![c].pc = "recorded",
                                     ![c].span = rec.span,
                                     ![c].events = rec.events,
                                     ![c].readings = <<elapsed1, elapsed1 + drift>>]
    /\ UNCHANGED <<conn, parserVars, builderVars, futureVars>>

\* a return that wraps the error into a new DbErr instead of passing it on
Return_wrapping_error(c) ==
    /\ calls[c].pc = "recorded"
    /\ LET result == CHOOSE r \in calls[c].inner : TRUE
       IN  calls' = [calls EXCEPT ![c].pc = "returned",
                                  ![c].returned =
                                      IF result.ok THEN calls[c].inner
                                      ELSE Some(Err([type |-> "DbErr", variant |-> "Custom",
                                                     detail |-> to_string(unwrap_err(result))])),
                                  ![c].handles = 0,
                                  ![c].closed = @ + 1]
    /\ UNCHANGED <<conn, parserVars, builderVars, futureVars>>

\* the result is handed to the caller; the last handle of the span is
\* dropped at the end of the function and the span closes
Return(c) ==
    /\ calls[c].pc = "recorded"
    /\ calls' = [calls EXCEPT ![c].pc = "returned",
                              ![c].returned = calls[c].inner,
                              ![c].handles = 0,
                              ![c].closed = @ + 1]
    /\ UNCHANGED <<conn, parserVars, builderVars, futureVars>>

\* a drop of the future that leaves one handle of the span behind
Cancel_leaking_handle(c) ==
    /\ \/ calls[c].pc = "running"
       \/ calls[c].pc = "opened" /\ calls[c].op = "stream"
    /\ calls' = [calls EXCEPT ![c].pc = "cancelled",
                              ![c].handles = 1]
    /\ UNCHANGED <<conn, parserVars, builderVars, futureVars>>

\* the caller drops the future while the wrapped operation is pending (for
\* stream also before the first poll): every handle of the span is dropped
Cancel(c) ==
    /\ \/ calls[c].pc = "running"
       \/ calls[c].pc = "opened" /\ calls[c].op = "stream"
    /\ calls' = [calls EXCEPT ![c].pc = "cancelled",
                              ![c].handles = 0,
                              ![c].closed = @ + 1]
    /\ UNCHANGED <<conn, parserVars, builderVars, futureVars>>

\* the caller is done with the call and may make another one
Reset(c) ==
    /\ calls[c].pc \in {"returned", "cancelled"}
    /\ calls' = [calls EXCEPT ![c] = IdleCall]
    /\ UNCHANGED <<conn, parserVars, builderVars, futureVars>>

(***************************************************************************)
(* Concurrent calls on one connection.  Each call wraps its operation as   *)
(* inner.<op>(..).instrument(span.clone()): a future that enters the span  *)
(* when an executor thread polls it and exits it when the poll returns,    *)
(* Pending or Ready.  The wrapped operation opens nested spans while it is *)
(* polled; the parent of a nested span is the current span of the thread.  *)
(***************************************************************************)
Tasks == {"a", "b"}

Threads == {"t1", "t2"}

MaxPolls == 2

NoFuture == [pc |-> "idle", thread |-> "none", polls |-> 0, parents |-> {}]

NoneEntered == [t \in Threads |-> <<>>]

\* the current span of a thread: the one entered last, if any
current(t) == IF entered[t] = <<>> THEN "none" ELSE entered[t][Len(entered[t])]

\* create_span and .instrument(span.clone()): the future exists, unpolled
Instrument(k) ==
    /\ futures[k].pc = "idle"
    /\ futures' = [futures EXCEPT ![k] = [NoFuture EXCEPT !.pc = "suspended"]]
    /\ UNCHANGED <<entered, parserVars, builderVars, conn, calls>>

\* a free thread polls the future: the span of the call is entered
Poll(k, t) ==
    /\ futures[k].pc = "suspended"
    /\ futures[k].polls < MaxPolls
    /\ \A j \in Tasks : futures[j].thread # t
    /\ futures' = [futures EXCEPT ![k].pc = "polling", ![k].thread = t, ![k].polls = @ + 1]
    /\ entered' = [entered EXCEPT ![t] = Append(@, k)]
    /\ UNCHANGED <<parserVars, builderVars, conn, calls>>

\* the wrapped operation, being polled, opens a nested span
Nested(k) ==
    /\ futures[k].pc = "polling"
    /\ futures' = [futures EXCEPT ![k].parents = @ \cup {current(futures[k].thread)}]
    /\ UNCHANGED <<entered, parserVars, builderVars, conn, calls>>

\* a poll that leaves the span entered when the operation is pending
PollReturn_holding_guard(k) ==
    /\ futures[k].pc = "polling"
    /\ \E ready \in {b \in BOOLEAN : b \/ futures[k].polls < MaxPolls} :
          /\ futures' = [futures EXCEPT ![k].pc = IF ready THEN "ready" ELSE "suspended",
                                        ![k].thread = "none"]
          /\ entered' = IF ready
                        THEN [entered EXCEPT ![futures[k].thread] = SubSeq(@, 1, Len(@) - 1)]
                        ELSE entered
    /\ UNCHANGED <<parserVars, builderVars, conn, calls>>

\* the poll returns, Pending (the operation waits on I/O) or Ready: the
\* span is exited
PollReturn(k) ==
    /\ futures[k].pc = "polling"
    /\ \E ready \in {b \in BOOLEAN : b \/ futures[k].polls < MaxPolls} :
          futures' = [futures EXCEPT ![k].pc = IF ready THEN "ready" ELSE "suspended",
                                     ![k].thread = "none"]
    /\ entered' = [entered EXCEPT ![futures[k].thread] = SubSeq(@, 1, Len(@) - 1)]
    /\ UNCHANGED <<parserVars, builderVars, conn, calls>>

\* the call records, returns and drops its span; the caller may call again
Finish(k) ==
    /\ futures[k].pc = "ready"
    /\ futures' = [futures EXCEPT ![k] = NoFuture]
    /\ UNCHANGED <<entered, parserVars, builderVars, conn, calls>>

(***************************************************************************)
(* Specifications                                                          *)
(***************************************************************************)
IdleStatement ==
    [lead |-> <<>>, verb |-> <<>>, mid |-> <<>>, ref |-> <<>>, quote |-> "none",
     ident |-> [text |-> <<"u", "s", "e", "r", "s">>, lower |-> <<"u", "s", "e", "r", "s">>], tail |-> <<>>]

SlowThresholds == {from_millis(500), from_millis(1), from_millis(1) + 1}

\* the configurations a connection is built with, each made with the builder
Configs ==
    {with_slow_query_threshold(
         with_row_count_recording(
             with_statement_logging(TracingConfig_default, ls), rc), th) :
        ls \in BOOLEAN, rc \in BOOLEAN, th \in SlowThresholds}

\* TracedConnection::new / wrap
TracedConnection_new(backend, cfg) == [backend |-> backend, config |-> cfg]

Init ==
    /\ conn \in {TracedConnection_new(b, cfg) : b \in Backends, cfg \in Configs}
    /\ calls = [c \in Callers |-> IdleCall]
    /\ stmt = IdleStatement
    /\ sql = <<>>
    /\ parsed = NotParsed
    /\ named = None
    /\ tracingConfig = TracingConfig_default
    /\ written = NothingWritten("default")
    /\ futures = [k \in Tasks |-> NoFuture]
    /\ entered = NoneEntered

Next ==
    \E c \in Callers :
        \/ Open(c)
        \/ Start(c)
        \/ Complete(c)
        \/ Record(c)
        \/ Return(c)
        \/ Cancel(c)
        \/ Reset(c)

Spec == Init /\ [][Next]_vars

\* the wrapped operation answers, and the wrapper's own code runs on
FairSpec == Spec /\ \A c \in Callers : WF_vars(Complete(c) \/ Record(c) \/ Return(c) \/ Start(c))

ParserInit ==
    /\ stmt \in Statements
    /\ sql = Render(stmt)
    /\ parsed = NotParsed
    /\ named = None
    /\ tracingConfig = TracingConfig_default
    /\ written = NothingWritten("default")
    /\ futures = [k \in Tasks |-> NoFuture]
    /\ entered = NoneEntered
    /\ conn = TracedConnection_new("Sqlite", TracingConfig_default)
    /\ calls = [c \in Callers |-> IdleCall]

ParserNext == Parse \/ SpanName

ParserSpec == ParserInit /\ [][ParserNext]_vars

BuilderInit ==
    /\ tracingConfig = TracingConfig_default
    /\ written = NothingWritten("default")
    /\ futures = [k \in Tasks |-> NoFuture]
    /\ entered = NoneEntered
    /\ stmt = IdleStatement
    /\ sql = <<>>
    /\ parsed = NotParsed
    /\ named = None
    /\ conn = TracedConnection_new("Sqlite", TracingConfig_default)
    /\ calls = [c \in Callers |-> IdleCall]

BuilderNext ==
    \/ Construct
    \/ WithStatementLogging
    \/ WithParameterLogging
    \/ WithSlowQueryThreshold
    \/ WithRowCountRecording
    \/ WithTarget
    \/ WithDatabaseName

BuilderSpec == BuilderInit /\ [][BuilderNext]_vars

\* the calls in flight start from the state a builder run starts from
ConcurrentNext ==
    \E k \in Tasks :
        \/ Instrument(k)
        \/ \E t \in Threads : Poll(k, t)
        \/ Nested(k)
        \/ PollReturn(k)
        \/ Finish(k)

ConcurrentSpec == BuilderInit /\ [][ConcurrentNext]_vars

(***************************************************************************)
(* Properties of the SQL classifier (checked under ParserSpec)             *)
(***************************************************************************)
\* position of the first character that is not whitespace
FirstNonSpace(s) ==
    IF \E i \in 1..Len(s) : ~IsSpace(s[i])
    THEN CHOOSE i \in 1..Len(s) : ~IsSpace(s[i]) /\ \A k \in 1..(i - 1) : IsSpace(s[k])
    ELSE Len(s) + 1

\* c is the upper-case letter K or its lower-case form
SameLetter(c, K) == c = K \/ \E i \in 1..26 : K = UpperAlpha[i] /\ c = LowerAlpha[i]

\* after its leading whitespace, s begins with the keyword in any mix of cases
BeginsWith(s, kw) ==
    LET p == FirstNonSpace(s)
    IN  /\ p + Len(kw) - 1 <= Len(s)
        /\ \A k \in 1..Len(kw) : SameLetter(s[p + k - 1], kw[k])

ExpectedOperation(s) ==
    CASE BeginsWith(s, KwSelect) \/ BeginsWith(s, KwWith) -> "Select"
      [] BeginsWith(s, KwInsert) -> "Insert"
      [] BeginsWith(s, KwUpdate) -> "Update"
      [] BeginsWith(s, KwDelete) -> "Delete"
      [] BeginsWith(s, KwCreate) -> "Create"
      [] BeginsWith(s, KwDrop) -> "Drop"
      [] BeginsWith(s, KwAlter) -> "Alter"
      [] BeginsWith(s, KwTruncate) -> "Truncate"
      [] BeginsWith(s, KwBegin) \/ BeginsWith(s, KwStart) -> "Begin"
      [] BeginsWith(s, KwCommit) -> "Commit"
      [] BeginsWith(s, KwRollback) -> "Rollback"
      [] BeginsWith(s, KwSet) -> "Set"
      [] OTHER -> "Other"

Spellings(kw) == {kw, LowerFrom(kw, 1), LowerFrom(kw, 2)}

Blank == <<" ">>

\* the statement names exactly its table `ident` through the canonical
\* pattern of its operation
Canonical(st) ==
    \/ /\ st.verb \in Spellings(KwSelect)
       /\ st.mid \in {Blank, <<" ", "*", " ">>}
       /\ st.ref \in {<<"F", "R", "O", "M", " ">>, <<"f", "r", "o", "m", "\n">>}
    \/ /\ st.verb \in Spellings(KwInsert)
       /\ st.mid = Blank
       /\ st.ref = <<"I", "N", "T", "O", " ">>
    \/ /\ st.verb \in Spellings(KwUpdate)
       /\ st.mid = Blank
       /\ st.ref = <<>>
    \/ /\ st.verb \in Spellings(KwDelete)
       /\ st.mid = Blank
       /\ st.ref \in {<<"F", "R", "O", "M", " ">>, <<"f", "r", "o", "m", "\n">>}

\* C9: for a SELECT / INSERT / UPDATE / DELETE statement that names its table
\* through FROM t, INSERT INTO t, UPDATE t or DELETE FROM t, extract_table
\* gives Some of the table name in lower case without the quote characters;
\* when more tables follow, it is the first one matched.
C9_ExtractTable ==
    (parsed # NotParsed /\ Canonical(stmt)) => parsed.table = Some(stmt.ident.lower)

\* a quoted mixed-case table followed by a join was extracted
C9_Witness ==
    /\ parsed # NotParsed
    /\ Canonical(stmt)
    /\ stmt.quote = "bracket"
    /\ stmt.ident.text # stmt.ident.lower
    /\ stmt.tail = <<" ", "u", " ", "J", "O", "I", "N", " ", "o", "r", "d", "e", "r", "s", " ", "o", " ", "S", "E", "T", " ", "x", " ", "F", "R", "O", "M", " ", "y">>
    /\ parsed.table = Some(stmt.ident.lower)

\* C10: a text classified Begin, Commit, Rollback, Set or Other has no table,
\* whatever follows the first word.
C10_NoTableRule ==
    (parsed # NotParsed /\ parsed.operation \in {"Begin", "Commit", "Rollback", "Set", "Other"})
        => parsed.table = None

\* a SET statement with FROM t and UPDATE t further on was parsed
C10_Witness ==
    /\ parsed # NotParsed
    /\ parsed.operation = "Set"
    /\ stmt.ref = <<"F", "R", "O", "M", " ">>
    /\ stmt.tail = <<" ", "W", "H", "E", "R", "E", " ", "i", "d", " ", "=", " ", "1", ";", " ", "U", "P", "D", "A", "T", "E", " ", "t", " ", "S", "E", "T", " ", "x", " ", "=", " ", "1">>
    /\ parsed.table = None

(***************************************************************************)
(* Properties of the traced connection (checked under Spec / FairSpec)     *)
(***************************************************************************)
Field(c, f) == calls[c].span.fields[f]

Completed(c) == calls[c].pc = "returned"

Result(c) == CHOOSE r \in calls[c].inner : TRUE

EventCount(c, level) ==
    Cardinality({i \in 1..Len(calls[c].events) : calls[c].events[i].level = level})

\* the time elapsed when the call was compared with the slow-query threshold
Elapsed(c) == calls[c].readings[2]

\* C1: what a completed call hands to its caller is the result the wrapped
\* connection produced, Ok or Err, payload included, for every operation
\* and configuration.
C1_ResultPassedThrough ==
    \A c \in Callers :
        Completed(c) => calls[c].inner # None /\ calls[c].returned = calls[c].inner

\* a failed call has been recorded as ERROR and its error returned
C1_Witness ==
    \E c \in Callers :
        /\ Completed(c)
        /\ ~Result(c).ok
        /\ Field(c, "otel.status_code") = Some("ERROR")
        /\ calls[c].returned = Some(Result(c))

\* C2: after a completed call the status is ERROR with a non-empty error
\* message when the wrapped call failed, and OK with no error message when
\* it succeeded.
C2_StatusMatchesOutcome ==
    \A c \in Callers :
        Completed(c) =>
            IF Result(c).ok
            THEN /\ Field(c, "otel.status_code") = Some("OK")
                 /\ Field(c, "error.message") = None
            ELSE /\ Field(c, "otel.status_code") = Some("ERROR")
                 /\ Field(c, "error.message") # None
                 /\ Field(c, "error.message") # Some("")

\* a stream that failed to open with an error of empty detail has completed
C2_Witness ==
    \E c \in Callers :
        /\ Completed(c)
        /\ calls[c].op = "stream"
        /\ ~Result(c).ok
        /\ unwrap_err(Result(c)).detail = ""
        /\ Field(c, "error.message") = Some("Custom Error: ")

SpanClosedOnce(c) ==
    /\ calls[c].closed <= 1
    /\ calls[c].closed = 1 <=> calls[c].pc \in {"returned", "cancelled"}
    /\ calls[c].handles = 0 <=> calls[c].pc \in {"idle", "returned", "cancelled"}
    /\ calls[c].pc \in {"recorded", "returned"} =>
          /\ Field(c, "otel.status_code") # None
          /\ calls[c].op \in StatementOps =>
                Field(c, "db.duration_ms") = Some(as_millis(calls[c].readings[1]))
          /\ calls[c].op \notin StatementOps =>
                /\ "db.duration_ms" \notin calls[c].span.declared
                /\ Field(c, "db.duration_ms") = None

C4_SlowQueryOnEveryOperation ==
    \A c \in Callers :
        Completed(c) =>
            IF Elapsed(c) > conn.config.slow_query_threshold
            THEN Field(c, "slow_query") = Some(TRUE) /\ EventCount(c, "WARN") = 1
            ELSE Field(c, "slow_query") = None /\ EventCount(c, "WARN") = 0

\* C5: on every wrapped operation a failed call has its duration, the ERROR
\* status, the error message and exactly one error event; a successful
\* call has no error event.  stream() and the transaction operations emit
\* no error event, and the transaction operations record no duration.
C5_ErrorEventOnEveryOperation ==
    \A c \in Callers :
        Completed(c) =>
            IF Result(c).ok
            THEN EventCount(c, "ERROR") = 0
            ELSE /\ Field(c, "db.duration_ms") # None
                 /\ Field(c, "otel.status_code") = Some("ERROR")
                 /\ Field(c, "error.message") # None
                 /\ EventCount(c, "ERROR") = 1

\* the count an outcome supplies: rows_affected of an execute, 1 or 0 for
\* the row of a query_one, the number of rows of a query_all
SuppliedCount(op, r) ==
    IF ~r.ok THEN None
    ELSE CASE op \in {"execute", "execute_unprepared"} -> Some(unwrap(r).rows_affected)
           [] op = "query_one" -> IF unwrap(r) = None THEN Some(0) ELSE Some(1)
           [] op = "query_all" -> Some(Len(unwrap(r)))
           [] OTHER -> None

\* C6: db.rows_affected is set exactly when record_row_counts is true and
\* the outcome supplied a count, and then holds that count; a failed call,
\* a stream and a transaction operation leave it empty.
C6_RowCount ==
    \A c \in Callers :
        calls[c].pc \in {"recorded", "returned"} =>
            Field(c, "db.rows_affected") =
                (IF conn.config.record_row_counts
                 THEN SuppliedCount(calls[c].op, Result(c)) ELSE None)

\* a query_one that found no row has recorded the count 0
C6_Witness ==
    \E c \in Callers :
        /\ Completed(c)
        /\ calls[c].op = "query_one"
        /\ Result(c).ok
        /\ unwrap(Result(c)) = None
        /\ conn.config.record_row_counts
        /\ Field(c, "db.rows_affected") = Some(0)

\* C7: db.statement is set only when log_statements is true, and is then
\* the SQL text of the statement; with log_statements false (the default)
\* no span carries it.
C7_StatementOptIn ==
    \A c \in Callers :
        /\ Field(c, "db.statement") # None =>
              /\ conn.config.log_statements
              /\ calls[c].op \in StatementOps
              /\ Field(c, "db.statement") = Some(Text(calls[c].sql))
        /\ conn.config = TracingConfig_default => Field(c, "db.statement") = None

\* a SELECT was executed with statement logging on and its text recorded
C7_Witness ==
    \E c \in Callers :
        /\ Completed(c)
        /\ calls[c].op = "execute_unprepared"
        /\ conn.config.log_statements
        /\ Field(c, "db.sql.table") = Some("users")
        /\ Field(c, "db.statement") = Some("SELECT * FROM users WHERE id = 1")

\* the upper-case label of each operation
Label(op) ==
    CASE op = "Select" -> "SELECT" [] op = "Insert" -> "INSERT"
      [] op = "Update" -> "UPDATE" [] op = "Delete" -> "DELETE"
      [] op = "Create" -> "CREATE" [] op = "Drop" -> "DROP"
      [] op = "Alter" -> "ALTER" [] op = "Truncate" -> "TRUNCATE"
      [] op = "Begin" -> "BEGIN" [] op = "Commit" -> "COMMIT"
      [] op = "Rollback" -> "ROLLBACK" [] op = "Set" -> "SET"
      [] OTHER -> "QUERY"

DocumentedDefault(f) ==
    CASE f = "log_statements" -> FALSE
      [] f = "log_parameters" -> FALSE
      [] f = "slow_query_threshold" -> from_millis(500)
      [] f = "record_row_counts" -> TRUE
      [] f = "target" -> "sea_orm_tracing"
      [] OTHER -> None

\* C12: after any sequence of setter calls on TracingConfig::default(),
\* each field reads as the last value set for it, and a field never set as
\* its documented default; so no setter changes a field other than its own.
C12_LastWriteWins ==
    written.constructor = "default" =>
        \A f \in SettableFields :
            tracingConfig[f] = IF written.last[f] = None THEN DocumentedDefault(f)
                               ELSE CHOOSE v \in written.last[f] : TRUE

\* statement logging was last switched off, the database name set and the
\* threshold left alone
C12_Witness ==
    /\ written.constructor = "default"
    /\ written.last["log_statements"] = Some(FALSE)
    /\ written.last["database_name"] = Some(Some("test_db"))
    /\ written.last["slow_query_threshold"] = None
    /\ tracingConfig.database_name = Some("test_db")
    /\ tracingConfig.slow_query_threshold = from_millis(500)

\* C13: the development preset logs statements and parameters and has a
\* slow-query threshold strictly below the default one; the production
\* preset logs neither and has a threshold strictly above the default one.
C13_Presets ==
    written = NothingWritten(written.constructor) =>
        /\ written.constructor = "development" =>
              /\ tracingConfig.log_statements /\ tracingConfig.log_parameters
              /\ tracingConfig.slow_query_threshold < DocumentedDefault("slow_query_threshold")
        /\ written.constructor = "production" =>
              /\ ~tracingConfig.log_statements /\ ~tracingConfig.log_parameters
              /\ tracingConfig.slow_query_threshold > DocumentedDefault("slow_query_threshold")

\* the production preset was constructed and no setter called on it
C13_Witness ==
    /\ written = NothingWritten("production")
    /\ tracingConfig.slow_query_threshold = from_secs(1)
    /\ ~tracingConfig.log_statements

(***************************************************************************)
(* Properties of the transaction-boundary operations (checked under Spec)  *)
(***************************************************************************)
TransactionOps == BeginOps \cup CallbackOps

\* C14: a transaction-boundary operation opens a span with the fixed label
\* BEGIN or TRANSACTION, whatever SQL the connection has seen; the span
\* carries the isolation-level and access-mode attributes only when the
\* caller supplied those values; and a completed call has OK, or ERROR and
\* the error message, as a regular call has.  begin_with_config and
\* transaction_with_config called with None carry both attributes, with the
\* text "None".
C14_TransactionSpanShape ==
    \A c \in Callers :
        (calls[c].op \in TransactionOps /\ calls[c].span # NoSpan) =>
            /\ Field(c, "otel.name") = Some(IF calls[c].op \in BeginOps THEN "BEGIN" ELSE "TRANSACTION")
            /\ Field(c, "db.operation") = Field(c, "otel.name")
            /\ Field(c, "db.transaction.isolation_level") # None => calls[c].isolation_level # None
            /\ Field(c, "db.transaction.access_mode") # None => calls[c].access_mode # None
            /\ Completed(c) =>
                  IF Result(c).ok
                  THEN Field(c, "otel.status_code") = Some("OK") /\ Field(c, "error.message") = None
                  ELSE Field(c, "otel.status_code") = Some("ERROR") /\ Field(c, "error.message") # None

(***************************************************************************)
(* Properties of an abandoned call (checked under Spec)                    *)
(***************************************************************************)
\* the fields an operation records after the wrapped call has completed
OutcomeFields ==
    {"db.duration_ms", "db.rows_affected", "slow_query", "otel.status_code", "error.message"}

Abandoned(c) == calls[c].pc = "cancelled"

\* C15: when the caller drops a call whose wrapped operation is pending,
\* the span of the call is closed (no handle of it is left), the outcome
\* attributes stay empty and no event is emitted; and from then on nothing
\* is recorded on that span.
C15_AbandonedCall ==
    /\ [](\A c \in Callers :
            Abandoned(c) =>
                /\ calls[c].closed = 1 /\ calls[c].handles = 0
                /\ \A f \in OutcomeFields : Field(c, f) = None
                /\ calls[c].events = <<>> /\ calls[c].returned = None)
    /\ [][\A c \in Callers :
            (Abandoned(c) /\ calls'[c].span # calls[c].span) => calls'[c] = IdleCall]_vars

\* an execute was dropped while the wrapped execute was pending
C15_Witness ==
    \E c \in Callers :
        /\ Abandoned(c)
        /\ calls[c].op = "execute"
        /\ calls[c].started = 1
        /\ calls[c].closed = 1
        /\ Field(c, "db.operation") = Some("SELECT")

(***************************************************************************)
(* Properties of concurrent calls (checked under ConcurrentSpec)           *)
(***************************************************************************)
\* the spans entered on thread t
EnteredOn(t) == {entered[t][i] : i \in 1..Len(entered[t])}

\* C16: with calls interleaved on one connection, while the wrapped
\* operation of a call is being polled (first poll and every resume) the
\* current span of its thread is the span of that call, so every nested
\* span it opens has that span as parent; while the call is suspended its
\* span is open and is entered on no thread.
C16_AmbientSpan ==
    \A k \in Tasks :
        /\ futures[k].pc = "polling" => current(futures[k].thread) = k
        /\ futures[k].parents \subseteq {k}
        /\ futures[k].pc = "suspended" => \A t \in Threads : k \notin EnteredOn(t)

\* a call resumed on another thread opened a nested span while a second
\* call, suspended after opening one, was in flight
C16_Witness ==
    \E k \in Tasks : \E j \in Tasks \ {k} :
        /\ futures[k].pc = "polling" /\ futures[k].polls = 2 /\ futures[k].thread = "t2"
        /\ futures[k].parents = {k}
        /\ futures[j].pc = "suspended" /\ futures[j].polls = 1
        /\ futures[j].parents = {j}

(***************************************************************************)
(* Order of the steps of a call (checked under Spec)                       *)
(***************************************************************************)
\* the steps a call may take: the path of a call that completes, the drop
\* of a pending call, and the caller's next call
Steps ==
    {<<"idle", "opened">>, <<"opened", "running">>, <<"running", "completed">>,
     <<"completed", "recorded">>, <<"recorded", "returned">>, <<"returned", "idle">>,
     <<"opened", "cancelled">>, <<"running", "cancelled">>, <<"cancelled", "idle">>}

Position(c, pcs) == calls[c].pc \in pcs

\* C17: a call that completes goes from idle through span opened, wrapped
\* operation running, outcome recorded, to closed, in that order and once
\* each: the span exists before the wrapped operation starts, the wrapped
\* operation is started once whatever its outcome, the outcome is recorded
\* once and only when the wrapped operation has produced it, and the
\* caller gets the result only after the recording.
C17_CallOrder ==
    /\ [](\A c \in Callers :
            /\ calls[c].span # NoSpan <=> ~Position(c, {"idle"})
            /\ calls[c].started = (IF Position(c, {"idle", "opened"}) THEN 0 ELSE 1)
               \/ Position(c, {"cancelled"})
            /\ calls[c].inner # None <=> Position(c, {"completed", "recorded", "returned"})
            /\ Field(c, "otel.status_code") # None <=> Position(c, {"recorded", "returned"})
            /\ calls[c].returned # None <=> Position(c, {"returned"})
            /\ calls[c].closed = 1 <=> Position(c, {"returned", "cancelled"}))
    /\ [][\A c \in Callers :
            /\ calls'[c].pc # calls[c].pc => <<calls[c].pc, calls'[c].pc>> \in Steps
            /\ Position(c, {"recorded"}) => calls'[c].span = calls[c].span]_vars

\* a stream that failed to open was started once, recorded and returned
C17_Witness ==
    \E c \in Callers :
        /\ Completed(c)
        /\ calls[c].op = "stream"
        /\ ~Result(c).ok
        /\ calls[c].started = 1
        /\ Field(c, "otel.status_code") = Some("ERROR")
        /\ calls[c].closed = 1

(***************************************************************************)
(* Duration and slow-query flag of record_result (checked under Spec)      *)
(***************************************************************************)
\* C18: for execute, execute_unprepared, query_one and query_all, a span
\* whose db.duration_ms is strictly greater than the whole milliseconds of
\* the threshold has slow_query = true; so a span without the flag has a
\* db.duration_ms no greater than the threshold's whole milliseconds.
C18_DurationImpliesSlow ==
    \A c \in Callers :
        (Completed(c) /\ calls[c].op \in StatementOps \ {"stream"}) =>
            \A d \in Field(c, "db.duration_ms") :
                /\ d > as_millis(conn.config.slow_query_threshold)
                      => Field(c, "slow_query") = Some(TRUE)
                /\ Field(c, "slow_query") = None
                      => d <= as_millis(conn.config.slow_query_threshold)

\* a query_all took two whole milliseconds against a threshold of one and
\* a half, the clock moving between the two readings
C18_Witness ==
    \E c \in Callers :
        /\ Completed(c)
        /\ calls[c].op = "query_all"
        /\ conn.config.slow_query_threshold = from_millis(1) + 1
        /\ calls[c].readings[1] < calls[c].readings[2]
        /\ Field(c, "db.duration_ms") = Some(as_millis(conn.config.slow_query_threshold) + 1)
        /\ Field(c, "slow_query") = Some(TRUE)
====
